---- MODULE Spec2Model ----
(***************************************************************************)
(* Model of view_dataset.py: the dataset inspector view_pkl_dataset, the   *)
(* JSON exporter save_dataset_to_json and the script entry point.          *)
(*                                                                         *)
(* A record of the dataset is a function from field names to tagged        *)
(* values (the tag is the Python type the isinstance tests look at).       *)
(* Standard output is the sequence `out` of printed lines.  A string that  *)
(* is sliced (a label) is a sequence of character codes.                   *)
(***************************************************************************)
EXTENDS Integers, Sequences, FiniteSets, TLC

VARIABLES
    fs,            \* the archive on disk: [state, err, data]
    pc,            \* position of the running operation
    entry,         \* which operation was invoked: "none", "main", "view", "export"
    show_details,  \* argument of view_pkl_dataset
    max_samples,   \* argument of view_pkl_dataset
    dataset,       \* the unpickled record sequence (<<>> before the load)
    loaded,        \* TRUE once pickle.load returned
    opens,         \* number of open() calls on the archive
    idx,           \* loop index of the preview loop / export loop
    out,           \* lines printed so far
    accessed,      \* positions i for which dataset[i] was evaluated (0-based)
    previewed,     \* the positions the preview loop rendered, in order
    exc,           \* "none", or the exception that escaped the operation
    json_data,     \* the list built by save_dataset_to_json
    json_file      \* what json.dump wrote: <<>> when nothing was written

vars == <<fs, pc, entry, show_details, max_samples, dataset, loaded, opens,
          idx, out, accessed, previewed, exc, json_data, json_file>>

-----------------------------------------------------------------------------
(* Bounds of the model *)

MaxRecords == 3
MaxSamples == 3
MaxLabelLen == 82
MaxLabels == 3

-----------------------------------------------------------------------------
(* Arithmetic helpers *)

Min2(a, b) == IF a <= b THEN a ELSE b

RECURSIVE SumSeq(_)
SumSeq(s) == IF s = <<>> THEN 0 ELSE Head(s) + SumSeq(Tail(s))

RECURSIVE MinSeq(_)
MinSeq(s) == IF Len(s) = 1 THEN s[1] ELSE Min2(s[1], MinSeq(Tail(s)))

RECURSIVE MaxSeq(_)
MaxSeq(s) == IF Len(s) = 1 THEN s[1]
             ELSE LET m == MaxSeq(Tail(s)) IN IF s[1] >= m THEN s[1] ELSE m

RECURSIVE Pow10(_)
Pow10(d) == IF d = 0 THEN 1 ELSE 10 * Pow10(d - 1)

FloorDiv(a, b) == IF a >= 0 THEN a \div b ELSE -((-a + b - 1) \div b)

\* format(num/den, ".<d>f"): the quotient rounded to d decimals, as an
\* integer count of 10^-d units.  Python formats the exact binary value of
\* the float, so a decimal tie is a tie only when it is a dyadic rational,
\* and is then rounded half to even.  With the denominators met here (up
\* to 5 for d = 1; 4, 6 and 30 for d = 3) every decimal tie is dyadic.
FormatFixed(num, den, d) ==
    LET scaled == num * Pow10(d)
        q == FloorDiv(scaled, den)
        r == scaled - q * den
    IN  IF 2 * r < den THEN q
        ELSE IF 2 * r > den THEN q + 1
        ELSE IF q % 2 = 0 THEN q ELSE q + 1

-----------------------------------------------------------------------------
(* Python values *)

PyStr(s) == [kind |-> "str", s |-> s]
PyInt(n) == [kind |-> "int", n |-> n]
PyList(xs) == [kind |-> "list", xs |-> xs]
PyTensor(shape, data) ==
    [kind |-> "Tensor", shape |-> shape, dtype |-> "torch.float32", data |-> data]

IsTensor(v) == v.kind = "Tensor"
IsList(v) == v.kind = "list"
IsNumber(v) == v.kind = "int"

\* bool(value) for the values a labels field holds
Truthy(v) == IF IsList(v) THEN Len(v.xs) > 0 ELSE TRUE

\* len(value): a list's length, a tensor's first dimension
PyLen(v) == IF IsTensor(v) THEN v.shape[1] ELSE Len(v.xs)

\* key in item
Has(item, key) == key \in DOMAIN item

\* dict.get(key, default)
Get(item, key, default) == IF Has(item, key) THEN item[key] ELSE default

-----------------------------------------------------------------------------
(* Printed lines *)

Line(tag, key, nums, text) == [tag |-> tag, key |-> key, nums |-> nums, text |-> text]
L0(tag) == Line(tag, "", <<>>, <<>>)
LK(tag, key) == Line(tag, key, <<>>, <<>>)
LN(tag, nums) == Line(tag, "", nums, <<>>)

\* the outcome of a block of statements: the lines it printed and the
\* exception it raised, if any
Ok(lines) == [lines |-> lines, exc |-> "none"]
Raise(lines, e) == [lines |-> lines, exc |-> e]
Then(r1, r2) == IF r1.exc # "none" THEN r1
                ELSE [lines |-> r1.lines \o r2.lines, exc |-> r2.exc]

\* item[key]: KeyError when the key is absent
Guarded(item, key, lines) == IF Has(item, key) THEN Ok(lines) ELSE Raise(<<>>, "KeyError")

-----------------------------------------------------------------------------
(* view_pkl_dataset: the blocks of the report *)

pkl_file == "dataset/BX_test.pkl"

\* iteration order of a record's keys
KeyOrder ==
    <<"video_name", "motion_type", "coordinates", "original_seq_len", "camera_view",
      "aligned_start_frame", "aligned_end_frame", "aligned_seq_len",
      "error_start_frame", "error_end_frame", "error_seq_len",
      "gt_start_frame", "gt_end_frame", "gt_seq_len",
      "labels", "augmented_labels">>

segment_keys ==
    <<"aligned_start_frame", "aligned_end_frame", "aligned_seq_len",
      "error_start_frame", "error_end_frame", "error_seq_len",
      "gt_start_frame", "gt_end_frame", "gt_seq_len">>

\* the keys of seq `order` that `item` has, in that order
RECURSIVE KeysIn(_, _)
KeysIn(item, order) ==
    IF order = <<>> THEN <<>>
    ELSE IF Has(item, Head(order)) THEN <<Head(order)>> \o KeysIn(item, Tail(order))
    ELSE KeysIn(item, Tail(order))

Banner == <<L0("rule"), LK("title", pkl_file), L0("rule"), L0("blank")>>

ReadFailed_NoMessage(e) == L0("read_failed")

ReadFailed(e) == LK("read_failed", e)

FirstType_Unguarded(ds) ==
    IF Len(ds) > 0 THEN [name |-> "dict", acc |-> {0}, exc |-> "none"]
    ELSE [name |-> "N/A", acc |-> {0}, exc |-> "IndexError"]

\* type(dataset[0]) if len(dataset) > 0 else 'N/A'
FirstType(ds) ==
    IF Len(ds) > 0 THEN [name |-> "dict", acc |-> {0}, exc |-> "none"]
    ELSE [name |-> "N/A", acc |-> {}, exc |-> "none"]

BasicInfo(ds) ==
    LET t == FirstType(ds)
    IN  IF t.exc # "none" THEN Raise(<<L0("basic_header"), LK("data_type", "list"),
                                       LN("count", <<Len(ds)>>)>>, t.exc)
        ELSE Ok(<<L0("basic_header"), LK("data_type", "list"), LN("count", <<Len(ds)>>),
                  LK("item_type", t.name), L0("blank")>>)

EmptyNotice == L0("empty_notice")

FieldLine(key, value) ==
    IF IsTensor(value) THEN Line("field_tensor", key, value.shape, <<>>)
    ELSE IF IsList(value) THEN Line("field_list", key, <<Len(value.xs)>>, <<>>)
    ELSE IF IsNumber(value) THEN Line("field_number", key, <<value.n>>, <<>>)
    ELSE Line("field_other", key, <<>>, <<>>)

FieldLines(first_item) ==
    LET keys == KeysIn(first_item, KeyOrder)
    IN  <<L0("fields_header")>>
        \o [i \in 1..Len(keys) |-> FieldLine(keys[i], first_item[keys[i]])]
        \o <<L0("blank"), L0("stats_header")>>

Tally_NoIncrement(mts, cat) ==
    IF \E p \in 1..Len(mts) : mts[p].cat = cat THEN mts
    ELSE Append(mts, [cat |-> cat, count |-> 1])

\* motion_types[mt] = motion_types.get(mt, 0) + 1, the dict kept in insertion order
Tally(mts, cat) ==
    IF \E p \in 1..Len(mts) : mts[p].cat = cat
    THEN [p \in 1..Len(mts) |->
            IF mts[p].cat = cat THEN [cat |-> cat, count |-> mts[p].count + 1] ELSE mts[p]]
    ELSE Append(mts, [cat |-> cat, count |-> 1])

\* mt = item.get('motion_type', 'Unknown')
MotionOf(item) == Get(item, "motion_type", PyStr("Unknown")).s

RECURSIVE TallyAll(_, _)
TallyAll(ds, mts) ==
    IF ds = <<>> THEN mts ELSE TallyAll(Tail(ds), Tally(mts, MotionOf(Head(ds))))

motion_types(ds) == TallyAll(ds, <<>>)

MotionGate_Always(first_item) == TRUE

MotionGate(first_item) == Has(first_item, "motion_type")

MotionBlock(ds) ==
    IF MotionGate(ds[1])
    THEN LET mts == motion_types(ds)
         IN  Ok(<<L0("mt_header")>>
                \o [i \in 1..Len(mts) |-> Line("mt_count", mts[i].cat, <<mts[i].count>>, <<>>)])
    ELSE Ok(<<>>)

SeqLenOf_CoordinatesFirst(item) ==
    IF Has(item, "coordinates") THEN <<PyLen(item["coordinates"])>>
    ELSE IF Has(item, "original_seq_len") THEN <<item["original_seq_len"].n>>
    ELSE <<>>

\* the length one record contributes to seq_lens: <<n>> or <<>>
SeqLenOf(item) ==
    IF Has(item, "original_seq_len") THEN <<item["original_seq_len"].n>>
    ELSE IF Has(item, "coordinates") THEN <<PyLen(item["coordinates"])>>
    ELSE <<>>

RECURSIVE seq_lens(_)
seq_lens(ds) == IF ds = <<>> THEN <<>> ELSE SeqLenOf(Head(ds)) \o seq_lens(Tail(ds))

SeqGate(first_item) == Has(first_item, "coordinates") \/ Has(first_item, "original_seq_len")

\* min, max and f"{sum/len:.1f}" of a non-empty list of integers
StatLines(tags, xs) ==
    <<L0(tags[1]), LN(tags[2], <<MinSeq(xs)>>), LN(tags[3], <<MaxSeq(xs)>>),
      LN(tags[4], <<FormatFixed(SumSeq(xs), Len(xs), 1)>>)>>

SeqTags == <<"seq_header", "seq_min", "seq_max", "seq_mean">>
LabTags == <<"lab_header", "lab_min", "lab_max", "lab_mean">>

SeqBlock(ds) ==
    IF SeqGate(ds[1]) /\ seq_lens(ds) # <<>>
    THEN Ok(StatLines(SeqTags, seq_lens(ds)))
    ELSE Ok(<<>>)

LabelCountOf_KeepsEmpty(item) ==
    IF Has(item, "labels") THEN <<PyLen(item["labels"])>> ELSE <<>>

\* what one record contributes to label_counts: <<n>> or <<>>
LabelCountOf(item) ==
    IF Has(item, "labels") /\ Truthy(item["labels"]) THEN <<PyLen(item["labels"])>> ELSE <<>>

RECURSIVE label_counts(_)
label_counts(ds) ==
    IF ds = <<>> THEN <<>> ELSE LabelCountOf(Head(ds)) \o label_counts(Tail(ds))

LabelGate(first_item) == Has(first_item, "labels")

LabelBlock(ds) ==
    IF LabelGate(ds[1]) /\ label_counts(ds) # <<>>
    THEN Ok(StatLines(LabTags, label_counts(ds)))
    ELSE Ok(<<>>)

-----------------------------------------------------------------------------
(* view_pkl_dataset: the sample previews *)

PreviewLen == 80
Dot == 46
Ellipsis == <<Dot, Dot, Dot>>

label_preview_OffByOne(label) ==
    IF Len(label) >= PreviewLen THEN SubSeq(label, 1, PreviewLen) \o Ellipsis ELSE label

\* label[:80] + '...' if len(label) > 80 else label
label_preview(label) ==
    IF Len(label) > PreviewLen THEN SubSeq(label, 1, PreviewLen) \o Ellipsis ELSE label

PreviewCount_WholeDataset(ms, n) == n

\* range(min(max_samples, len(dataset)))
PreviewCount(ms, n) == IF Min2(ms, n) < 0 THEN 0 ELSE Min2(ms, n)

SamplesHeader(ms, n) ==
    <<L0("rule"), LN("samples_header", <<Min2(ms, n)>>), L0("rule"), L0("blank")>>

NameLines(item) ==
    Ok(<<LK("video_name", Get(item, "video_name", PyStr("N/A")).s),
         LK("motion_type", Get(item, "motion_type", PyStr("N/A")).s)>>)

\* coords.shape and f"{coords.min():.3f}", f"{coords.max():.3f}", f"{coords.mean():.3f}"
CoordsLines(item) ==
    IF Has(item, "coordinates")
    THEN Guarded(item, "coordinates",
            LET coords == item["coordinates"]
            IN  <<LN("coords_shape", coords.shape),
                  LN("coords_stats", <<FormatFixed(MinSeq(coords.data), 1, 3),
                                       FormatFixed(MaxSeq(coords.data), 1, 3),
                                       FormatFixed(SumSeq(coords.data), Len(coords.data), 3)>>)>>)
    ELSE Ok(<<>>)

OrigLenLines_Unguarded(item) ==
    Guarded(item, "original_seq_len", <<LN("orig_len", <<item["original_seq_len"].n>>)>>)

OrigLenLines(item) ==
    IF Has(item, "original_seq_len")
    THEN Guarded(item, "original_seq_len", <<LN("orig_len", <<item["original_seq_len"].n>>)>>)
    ELSE Ok(<<>>)

CameraLines(item) ==
    IF Has(item, "camera_view")
    THEN Guarded(item, "camera_view", <<LK("camera_view", item["camera_view"].s)>>)
    ELSE Ok(<<>>)

\* the filter of the comprehension: if k in item
SegmentKept(item, k) == Has(item, k)

RECURSIVE SegKeys(_, _)
SegKeys(item, order) ==
    IF order = <<>> THEN <<>>
    ELSE IF SegmentKept(item, Head(order)) THEN <<Head(order)>> \o SegKeys(item, Tail(order))
    ELSE SegKeys(item, Tail(order))

\* segments = {k: item[k] for k in segment_keys if k in item}, as its key list
segments(item) == SegKeys(item, segment_keys)

SegmentLines(item) ==
    LET segs == segments(item)
    IN  IF \E i \in 1..Len(segs) : ~Has(item, segs[i]) THEN Raise(<<>>, "KeyError")
        ELSE IF segs # <<>>
        THEN Ok(<<L0("segments_header")>>
                \o [i \in 1..Len(segs) |-> Line("segment", segs[i], <<item[segs[i]].n>>, <<>>)])
        ELSE Ok(<<>>)

LabelLines(item) ==
    IF Has(item, "labels") /\ Truthy(item["labels"])
    THEN LET labels == item["labels"].xs
             shown == SubSeq(labels, 1, Min2(2, Len(labels)))
         IN  Ok(<<LN("labels_header", <<Len(labels)>>)>>
                \o [i \in 1..Len(shown) |-> Line("label", "", <<i>>, label_preview(shown[i]))]
                \o (IF Len(labels) > 2 THEN <<LN("labels_more", <<Len(labels) - 2>>)>>
                    ELSE <<>>))
    ELSE Ok(<<>>)

AugmentedLines(item) ==
    IF Has(item, "augmented_labels") /\ Truthy(item["augmented_labels"])
    THEN Ok(<<LN("augmented_labels", <<PyLen(item["augmented_labels"])>>)>>)
    ELSE Ok(<<>>)

\* the body of the preview loop for idx (0-based)
PreviewLines(item, i) ==
    Then(Ok(<<LN("sample", <<i + 1>>)>>),
    Then(NameLines(item),
    Then(CoordsLines(item),
    Then(OrigLenLines(item),
    Then(CameraLines(item),
    Then(SegmentLines(item),
    Then(LabelLines(item),
    Then(AugmentedLines(item), Ok(<<L0("blank")>>)))))))))

Footer == <<L0("rule"), L0("hint"), L0("hint_json"), L0("hint_samples"), L0("rule"), L0("blank")>>

-----------------------------------------------------------------------------
(* save_dataset_to_json *)

RECURSIVE GCD(_, _)
GCD(a, b) == IF b = 0 THEN a ELSE GCD(b, a % b)

Abs(a) == IF a < 0 THEN -a ELSE a

\* the rational num/den in lowest terms, den > 0
Fraction(num, den) ==
    LET g == GCD(Abs(num), den)
    IN  [num |-> num \div g, den |-> den \div g]

TensorSummary_MeanOverRows(value) ==
    [kind |-> "dict", type |-> "Tensor", shape |-> value.shape, dtype |-> value.dtype,
     min |-> Fraction(MinSeq(value.data), 1), max |-> Fraction(MaxSeq(value.data), 1),
     mean |-> Fraction(SumSeq(value.data), value.shape[1])]

\* the summary dict built for a tensor; float(value.mean()) is kept as the
\* exact rational it approximates
TensorSummary(value) ==
    [kind |-> "dict", type |-> "Tensor", shape |-> value.shape, dtype |-> value.dtype,
     min |-> Fraction(MinSeq(value.data), 1), max |-> Fraction(MaxSeq(value.data), 1),
     mean |-> Fraction(SumSeq(value.data), Len(value.data))]

\* the value stored under json_item[key]
json_value(value) == IF IsTensor(value) THEN TensorSummary(value) ELSE value

json_item(item) == [key \in DOMAIN item |-> json_value(item[key])]

\* json.dump of one value: what the file holds for it, or "TypeError"
Serializable(v) == v.kind # "Tensor"

ToJson(v) ==
    IF v.kind = "str" THEN [json |-> "string", s |-> v.s]
    ELSE IF v.kind = "int" THEN [json |-> "number", n |-> v.n]
    ELSE IF v.kind = "list" THEN [json |-> "array", xs |-> v.xs]
    ELSE [json |-> "object", type |-> v.type, shape |-> v.shape, dtype |-> v.dtype,
          min |-> v.min, max |-> v.max, mean |-> v.mean]

DumpItem(ji) == [key \in DOMAIN ji |-> ToJson(ji[key])]

DumpFails(jd) == \E i \in 1..Len(jd) : \E key \in DOMAIN jd[i] : ~Serializable(jd[i][key])

Dump(jd) == [i \in 1..Len(jd) |-> DumpItem(jd[i])]

-----------------------------------------------------------------------------
(* The archives the model is run on *)

Merge(f, g) == [k \in DOMAIN f \cup DOMAIN g |-> IF k \in DOMAIN f THEN f[k] ELSE g[k]]

EmptyRec == [k \in {} |-> PyInt(0)]

Field(key, value) == [k \in {key} |-> value]

Opt(S) == {EmptyRec} \cup S

SeqsUpTo(S, n) == UNION {[1..m -> S] : m \in 1..n}

\* a string of n characters
LabelStr(n, k) == [i \in 1..n |-> 97 + ((i + k) % 3)]

\* a float tensor of the given shape
TensorOf(rows, cols) == PyTensor(<<rows, cols>>, [i \in 1..(rows * cols) |-> ((i * 7) % 11) - 3])

LabelList(n) == PyList([i \in 1..n |-> LabelStr(2, i)])

Categories == {"A", "B", "Unknown"}

MotionRecs ==
    {Merge(Field("video_name", PyStr("v")), m) :
        m \in Opt({Field("motion_type", PyStr(c)) : c \in Categories})}

SeqLenRecs ==
    {Merge(o, c) :
        o \in Opt({Field("original_seq_len", PyInt(n)) : n \in {2, 5}}),
        c \in Opt({Field("coordinates", TensorOf(3, 2))})}

LabelRecs == Opt({Field("labels", LabelList(n)) : n \in {0, 1, 2, MaxLabels}})

LabelLens == {0, 1} \cup ((PreviewLen - 1)..MaxLabelLen)

LongLabelRecs ==
    {Field("labels", PyList(xs)) :
        xs \in [1..1 -> {LabelStr(n, 0) : n \in LabelLens}]
               \cup [1..2 -> {LabelStr(n, 1) : n \in LabelLens}]
               \cup {<<LabelStr(PreviewLen + 1, 2), LabelStr(PreviewLen, 2),
                        LabelStr(MaxLabelLen, 2)>>}}

AllSegments == [k \in {segment_keys[i] : i \in 1..Len(segment_keys)} |-> PyInt(7)]

OneSegment == {Field(segment_keys[i], PyInt(i)) : i \in 1..Len(segment_keys)}

FullRec ==
    Merge(Field("video_name", PyStr("v")),
    Merge(Field("motion_type", PyStr("A")),
    Merge(Field("coordinates", TensorOf(2, 2)),
    Merge(Field("original_seq_len", PyInt(4)),
    Merge(Field("camera_view", PyStr("front")),
    Merge(Field("labels", LabelList(3)), Field("augmented_labels", LabelList(1))))))))

\* every combination of present and absent fields, the segment fields all
\* absent or all present; and each segment field alone or with the others
\* absent from an otherwise full record
PreviewRecs ==
    {Merge(v, Merge(m, Merge(c, Merge(o, Merge(cam, Merge(sg, Merge(lb, au))))))) :
        v \in Opt({Field("video_name", PyStr("v"))}),
        m \in Opt({Field("motion_type", PyStr("A"))}),
        c \in Opt({Field("coordinates", TensorOf(2, 2))}),
        o \in Opt({Field("original_seq_len", PyInt(4))}),
        cam \in Opt({Field("camera_view", PyStr("front"))}),
        sg \in {EmptyRec, AllSegments},
        lb \in Opt({Field("labels", LabelList(3))}),
        au \in Opt({Field("augmented_labels", LabelList(n)) : n \in {0, 1}})}
    \cup {Merge(base, sg) : base \in {EmptyRec, FullRec}, sg \in OneSegment}

\* the worked examples: label counts [0, 2, 3, 3, 5]; a tensor of shape (10, 3)
ExampleLabels ==
    <<Field("labels", LabelList(0)), Field("labels", LabelList(2)), Field("labels", LabelList(3)),
      Field("labels", LabelList(3)), Field("labels", LabelList(5))>>

ExampleTensor ==
    <<Merge(Field("video_name", PyStr("v")), Field("coordinates", TensorOf(10, 3)))>>

Datasets ==
    {<<>>, ExampleLabels, ExampleTensor}
    \cup SeqsUpTo(MotionRecs, MaxRecords)
    \cup SeqsUpTo(SeqLenRecs, MaxRecords)
    \cup SeqsUpTo(LabelRecs, MaxRecords)
    \cup SeqsUpTo(LongLabelRecs, 1)
    \cup SeqsUpTo(PreviewRecs, 1)

Archives ==
    {[state |-> "missing", err |-> "No such file or directory", data |-> <<>>],
     [state |-> "corrupt", err |-> "pickle data was truncated", data |-> <<>>],
     [state |-> "corrupt", err |-> "invalid load key", data |-> <<>>]}
    \cup {[state |-> "ok", err |-> "", data |-> d] : d \in Datasets}

-----------------------------------------------------------------------------
(* The state machine *)

Init ==
    /\ fs \in Archives
    /\ pc = "idle"
    /\ entry = "none"
    /\ show_details = TRUE
    /\ max_samples = 0
    /\ dataset = <<>>
    /\ loaded = FALSE
    /\ opens = 0
    /\ idx = 0
    /\ out = <<>>
    /\ accessed = {}
    /\ previewed = <<>>
    /\ exc = "none"
    /\ json_data = <<>>
    /\ json_file = <<>>

\* the arguments callers pass: details on with each sample count, details off
ViewArgs == {<<TRUE, ms>> : ms \in 0..MaxSamples} \cup {<<FALSE, MaxSamples>>}

AllPositions(ds) == 0..(Len(ds) - 1)

\* where control goes when view_pkl_dataset returns
AfterView == IF entry = "main" THEN "main_tail" ELSE "done"

\* a block's outcome applied to the state: its lines are printed, and either
\* control moves on to `next` or the exception escapes
Run(r, next) ==
    /\ out' = out \o r.lines
    /\ exc' = r.exc
    /\ pc' = IF r.exc = "none" THEN next ELSE "raised"

\* __main__: Path(pkl_file).exists() is false
MainNotExists ==
    /\ pc = "idle"
    /\ fs.state = "missing"
    /\ entry' = "main"
    /\ out' = out \o <<LK("not_exists", pkl_file), L0("run_from_root")>>
    /\ pc' = "main_tail"
    /\ UNCHANGED <<fs, show_details, max_samples, dataset, loaded, opens, idx, accessed,
                   exc, json_data, json_file, previewed>>

\* __main__: view_pkl_dataset(pkl_file, show_details=True, max_samples=3)
MainView ==
    /\ pc = "idle"
    /\ fs.state # "missing"
    /\ entry' = "main"
    /\ show_details' = TRUE
    /\ max_samples' = 3
    /\ out' = out \o Banner
    /\ pc' = "load"
    /\ UNCHANGED <<fs, dataset, loaded, opens, idx, accessed, previewed, exc, json_data,
                   json_file>>

\* a caller invokes view_pkl_dataset(pkl_path, show_details, max_samples)
CallView ==
    /\ pc = "idle"
    /\ \E args \in ViewArgs :
        /\ show_details' = args[1]
        /\ max_samples' = args[2]
    /\ entry' = "view"
    /\ out' = out \o Banner
    /\ pc' = "load"
    /\ UNCHANGED <<fs, dataset, loaded, opens, idx, accessed, previewed, exc, json_data,
                   json_file>>

\* open() or pickle.load() raises: the except clause prints and returns
LoadFail ==
    /\ pc = "load"
    /\ fs.state # "ok"
    /\ opens' = opens + 1
    /\ out' = Append(out, ReadFailed(fs.err))
    /\ pc' = AfterView
    /\ UNCHANGED <<fs, entry, show_details, max_samples, dataset, loaded, idx, accessed,
                   exc, json_data, json_file, previewed>>

LoadOk ==
    /\ pc = "load"
    /\ fs.state = "ok"
    /\ opens' = opens + 1
    /\ dataset' = fs.data
    /\ loaded' = TRUE
    /\ pc' = "basic"
    /\ UNCHANGED <<fs, entry, show_details, max_samples, idx, out, accessed, exc,
                   json_data, json_file, previewed>>

\* the basic information block and the empty-dataset return
Basic ==
    /\ pc = "basic"
    /\ LET r == BasicInfo(dataset)
       IN  IF r.exc = "none" /\ Len(dataset) = 0
           THEN Run(Then(r, Ok(<<EmptyNotice>>)), AfterView)
           ELSE Run(r, "fields")
    /\ accessed' = accessed \cup FirstType(dataset).acc
    /\ UNCHANGED <<fs, entry, show_details, max_samples, dataset, loaded, opens, idx,
                   previewed, json_data, json_file>>

\* first_item = dataset[0] and the field enumeration
Fields ==
    /\ pc = "fields"
    /\ IF Len(dataset) = 0
       THEN Run(Raise(<<>>, "IndexError"), "stat_motion")
       ELSE Run(Ok(FieldLines(dataset[1])), "stat_motion")
    /\ accessed' = accessed \cup {0}
    /\ UNCHANGED <<fs, entry, show_details, max_samples, dataset, loaded, opens, idx,
                   previewed, json_data, json_file>>

StatMotion ==
    /\ pc = "stat_motion"
    /\ Run(MotionBlock(dataset), "stat_seq")
    /\ accessed' = IF MotionGate(dataset[1]) THEN AllPositions(dataset) ELSE accessed
    /\ UNCHANGED <<fs, entry, show_details, max_samples, dataset, loaded, opens, idx,
                   previewed, json_data, json_file>>

StatSeqLen ==
    /\ pc = "stat_seq"
    /\ Run(SeqBlock(dataset), "stat_labels")
    /\ accessed' = IF SeqGate(dataset[1]) THEN AllPositions(dataset) ELSE accessed
    /\ UNCHANGED <<fs, entry, show_details, max_samples, dataset, loaded, opens, idx,
                   previewed, json_data, json_file>>

StatLabels ==
    /\ pc = "stat_labels"
    /\ Run(Then(LabelBlock(dataset), Ok(<<L0("blank")>>)),
           IF show_details THEN "preview_header" ELSE "footer")
    /\ accessed' = IF LabelGate(dataset[1]) THEN AllPositions(dataset) ELSE accessed
    /\ UNCHANGED <<fs, entry, show_details, max_samples, dataset, loaded, opens, idx,
                   previewed, json_data, json_file>>

PreviewHeader ==
    /\ pc = "preview_header"
    /\ out' = out \o SamplesHeader(max_samples, Len(dataset))
    /\ idx' = 0
    /\ pc' = "preview"
    /\ UNCHANGED <<fs, entry, show_details, max_samples, dataset, loaded, opens, accessed,
                   exc, json_data, json_file, previewed>>

\* one iteration of: for idx in range(min(max_samples, len(dataset)))
PreviewItem ==
    /\ pc = "preview"
    /\ idx < PreviewCount(max_samples, Len(dataset))
    /\ IF idx >= Len(dataset)
       THEN Run(Raise(<<>>, "IndexError"), "preview")
       ELSE Run(PreviewLines(dataset[idx + 1], idx), "preview")
    /\ accessed' = accessed \cup {idx}
    /\ previewed' = Append(previewed, idx)
    /\ idx' = idx + 1
    /\ UNCHANGED <<fs, entry, show_details, max_samples, dataset, loaded, opens,
                   json_data, json_file>>

PreviewDone ==
    /\ pc = "preview"
    /\ idx >= PreviewCount(max_samples, Len(dataset))
    /\ pc' = "footer"
    /\ UNCHANGED <<fs, entry, show_details, max_samples, dataset, loaded, opens, idx, out,
                   accessed, exc, json_data, json_file, previewed>>

PrintFooter ==
    /\ pc = "footer"
    /\ out' = out \o Footer
    /\ pc' = AfterView
    /\ UNCHANGED <<fs, entry, show_details, max_samples, dataset, loaded, opens, idx,
                   accessed, exc, json_data, json_file, previewed>>

\* __main__: the closing list of other datasets
MainTail ==
    /\ pc = "main_tail"
    /\ out' = out \o <<L0("rule"), L0("other_datasets"), L0("rule")>>
    /\ pc' = "done"
    /\ UNCHANGED <<fs, entry, show_details, max_samples, dataset, loaded, opens, idx,
                   accessed, exc, json_data, json_file, previewed>>

\* a caller invokes save_dataset_to_json(pkl_path, json_path)
CallExport ==
    /\ pc = "idle"
    /\ entry' = "export"
    /\ pc' = "x_load"
    /\ UNCHANGED <<fs, show_details, max_samples, dataset, loaded, opens, idx, out,
                   accessed, exc, json_data, json_file, previewed>>

\* open() or pickle.load() raises: nothing catches it
ExportLoadFail ==
    /\ pc = "x_load"
    /\ fs.state # "ok"
    /\ opens' = opens + 1
    /\ exc' = fs.err
    /\ pc' = "raised"
    /\ UNCHANGED <<fs, entry, show_details, max_samples, dataset, loaded, idx, out,
                   accessed, json_data, json_file, previewed>>

ExportLoadOk ==
    /\ pc = "x_load"
    /\ fs.state = "ok"
    /\ opens' = opens + 1
    /\ dataset' = fs.data
    /\ loaded' = TRUE
    /\ idx' = 0
    /\ pc' = "x_convert"
    /\ UNCHANGED <<fs, entry, show_details, max_samples, out, accessed, exc, json_data,
                   json_file, previewed>>

\* one iteration of: for item in dataset
ExportItem ==
    /\ pc = "x_convert"
    /\ idx < Len(dataset)
    /\ json_data' = Append(json_data, json_item(dataset[idx + 1]))
    /\ accessed' = accessed \cup {idx}
    /\ idx' = idx + 1
    /\ UNCHANGED <<fs, pc, entry, show_details, max_samples, dataset, loaded, opens, out,
                   exc, json_file, previewed>>

\* json.dump(json_data, f, ...) and the closing message
ExportWrite ==
    /\ pc = "x_convert"
    /\ idx = Len(dataset)
    /\ IF DumpFails(json_data)
       THEN /\ exc' = "TypeError"
            /\ pc' = "raised"
            /\ UNCHANGED <<out, json_file>>
       ELSE /\ json_file' = <<Dump(json_data)>>
            /\ out' = Append(out, L0("exported"))
            /\ pc' = "done"
            /\ UNCHANGED exc
    /\ UNCHANGED <<fs, entry, show_details, max_samples, dataset, loaded, opens, idx,
                   accessed, json_data, previewed>>

\* open(json_path, 'w') raises: nothing catches it
ExportWriteFail ==
    /\ pc = "x_convert"
    /\ idx = Len(dataset)
    /\ exc' = "OSError"
    /\ pc' = "raised"
    /\ UNCHANGED <<fs, entry, show_details, max_samples, dataset, loaded, opens, idx, out,
                   accessed, json_data, json_file, previewed>>

Next ==
    \/ MainNotExists
    \/ MainView
    \/ CallView
    \/ LoadFail
    \/ LoadOk
    \/ Basic
    \/ Fields
    \/ StatMotion
    \/ StatSeqLen
    \/ StatLabels
    \/ PreviewHeader
    \/ PreviewItem
    \/ PreviewDone
    \/ PrintFooter
    \/ MainTail
    \/ CallExport
    \/ ExportLoadFail
    \/ ExportLoadOk
    \/ ExportItem
    \/ ExportWrite
    \/ ExportWriteFail

Spec == Init /\ [][Next]_vars

-----------------------------------------------------------------------------
(* Vocabulary of the properties *)

HasTag(t) == \E i \in 1..Len(out) : out[i].tag = t

CountTag(t) == Cardinality({i \in 1..Len(out) : out[i].tag = t})

\* the value printed on the only line tagged t
ValueOf(t) == out[CHOOSE i \in 1..Len(out) : out[i].tag = t].nums[1]

InView == entry \in {"main", "view"} /\ opens > 0

MainTailLines == <<L0("rule"), L0("other_datasets"), L0("rule")>>

\* what view_pkl_dataset itself has printed
ViewOut == IF entry = "main" /\ pc = "done" THEN SubSeq(out, 1, Len(out) - 3) ELSE out

SchemaTags == {"basic_header", "data_type", "count", "item_type", "fields_header",
               "field_tensor", "field_list", "field_number", "field_other"}

StatTags == {"stats_header", "mt_header", "mt_count", "seq_header", "seq_min", "seq_max",
             "seq_mean", "lab_header", "lab_min", "lab_max", "lab_mean"}

PreviewTags == {"samples_header", "sample", "video_name", "motion_type", "coords_shape",
                "coords_stats", "orig_len", "camera_view", "segments_header", "segment",
                "labels_header", "label", "labels_more", "augmented_labels"}

FooterTags == {"hint", "hint_json", "hint_samples"}

\* the statistics blocks have all run on a non-empty dataset
StatsDone ==
    /\ InView
    /\ loaded
    /\ Len(dataset) > 0
    /\ pc \in {"preview_header", "preview", "footer", "main_tail", "done"}

-----------------------------------------------------------------------------
(* C1: when the load fails, view_pkl_dataset prints one diagnostic that     *)
(* carries the underlying error message and returns normally: the archive  *)
(* is opened once, no exception escapes, nothing of the schema, statistics *)
(* or previews is printed, and the script goes on to its closing lines.    *)

C1_LoadFailureIsReportedAndContained ==
    (InView /\ fs.state # "ok" /\ pc # "load") =>
        /\ exc = "none"
        /\ pc \in {"main_tail", "done"}
        /\ opens = 1
        /\ ~loaded
        /\ ViewOut = Banner \o <<LK("read_failed", fs.err)>>
        /\ \A i \in 1..Len(out) :
              out[i].tag \notin SchemaTags \cup StatTags \cup PreviewTags \cup FooterTags
        /\ (entry = "main" /\ pc = "done") => out = ViewOut \o MainTailLines

C1_Witness ==
    /\ entry = "main"
    /\ fs.state = "corrupt"
    /\ pc = "done"
    /\ HasTag("read_failed")
    /\ HasTag("other_datasets")

-----------------------------------------------------------------------------
(* C2: for an empty dataset, view_pkl_dataset prints the empty-dataset      *)
(* notice once, as the last thing it prints after the cardinality block;   *)
(* no field enumeration, statistics, preview or footer is printed, record  *)
(* 0 is never accessed and no exception is raised.                         *)

C2_EmptyDatasetShortCircuits ==
    (InView /\ loaded /\ Len(dataset) = 0 /\ pc # "basic") =>
        /\ exc = "none"
        /\ pc \in {"main_tail", "done"}
        /\ accessed = {}
        /\ previewed = <<>>
        /\ ViewOut = Banner
                     \o <<L0("basic_header"), LK("data_type", "list"), LN("count", <<0>>),
                          LK("item_type", "N/A"), L0("blank"), L0("empty_notice")>>
        /\ \A i \in 1..Len(out) :
              out[i].tag \notin {"fields_header", "field_tensor", "field_list", "field_number",
                                 "field_other"} \cup StatTags \cup PreviewTags \cup FooterTags

C2_Witness ==
    /\ entry = "view"
    /\ loaded
    /\ dataset = <<>>
    /\ pc = "done"
    /\ out[Len(out)].tag = "empty_notice"

-----------------------------------------------------------------------------
(* Statistics, restated from the records *)

Carriers(key) == {i \in 1..Len(dataset) : key \in DOMAIN dataset[i]}

\* the lines of one tag, in print order
RECURSIVE LinesTagged(_, _)
LinesTagged(lines, t) ==
    IF lines = <<>> THEN <<>>
    ELSE IF Head(lines).tag = t THEN <<Head(lines)>> \o LinesTagged(Tail(lines), t)
    ELSE LinesTagged(Tail(lines), t)

CategoryLines == LinesTagged(out, "mt_count")

RECURSIVE SumOver(_, _)
SumOver(S, f) ==
    IF S = {} THEN 0 ELSE LET i == CHOOSE j \in S : TRUE IN f[i] + SumOver(S \ {i}, f)

\* a statistic block reports the minimum, the maximum and the mean of the
\* values vals[i], i in S: the mean as the nearest multiple of 0.1
BlockReports(tags, S, vals) ==
    /\ CountTag(tags[1]) = 1 /\ CountTag(tags[2]) = 1
    /\ CountTag(tags[3]) = 1 /\ CountTag(tags[4]) = 1
    /\ \E i \in S : vals[i] = ValueOf(tags[2])
    /\ \A i \in S : vals[i] >= ValueOf(tags[2])
    /\ \E i \in S : vals[i] = ValueOf(tags[3])
    /\ \A i \in S : vals[i] <= ValueOf(tags[3])
    /\ LET t == ValueOf(tags[4])
           d == 10 * SumOver(S, vals) - t * Cardinality(S)
       IN  2 * d <= Cardinality(S) /\ -2 * d <= Cardinality(S)

\* the printed mean is the mean itself, with nothing lost to the rendering
MeanIsExact(tag, S, vals) == ValueOf(tag) * Cardinality(S) = 10 * SumOver(S, vals)

-----------------------------------------------------------------------------
(* C3, as stated: the category-distribution block is printed if and only   *)
(* if at least one record, at any position, carries motion_type.           *)

C3_BlockIffAnyRecordCarries ==
    StatsDone => (HasTag("mt_header") <=> Carriers("motion_type") # {})

(* C3, amended: the category-distribution block is printed if and only if  *)
(* record 0 carries motion_type; so it is printed only if at least one     *)
(* record carries the field and is absent when no record carries it.       *)

C3_BlockIffFirstRecordCarries ==
    StatsDone =>
        /\ HasTag("mt_header") <=> 1 \in Carriers("motion_type")
        /\ HasTag("mt_header") => Carriers("motion_type") # {}
        /\ Carriers("motion_type") = {} => ~HasTag("mt_header") /\ ~HasTag("mt_count")
        /\ CountTag("mt_header") <= 1

C3_Witness ==
    /\ StatsDone
    /\ pc = "done"
    /\ Carriers("motion_type") # {}
    /\ 1 \notin Carriers("motion_type")
    /\ ~HasTag("mt_header")

-----------------------------------------------------------------------------
(* C4, as stated: when the category-distribution block is printed, the     *)
(* count of each category is the number of records whose motion_type is    *)
(* that category, a record without motion_type counts for no category, and *)
(* the counts sum to the number of records that carry the field.           *)

C4_MissingFieldCountsNowhere ==
    (StatsDone /\ HasTag("mt_header")) =>
        /\ \A k \in 1..Len(CategoryLines) :
              CategoryLines[k].nums[1] =
                  Cardinality({i \in Carriers("motion_type") :
                                  dataset[i]["motion_type"].s = CategoryLines[k].key})
        /\ SumSeq([k \in 1..Len(CategoryLines) |-> CategoryLines[k].nums[1]])
              = Cardinality(Carriers("motion_type"))

(* C4, amended: when the block is printed, every category is listed once;  *)
(* the count of a category is the number of records whose motion_type is   *)
(* that category, plus, for the category 'Unknown', the number of records  *)
(* without a motion_type field; the counts sum to the dataset size.        *)

CategoryOfRecord(i) ==
    IF i \in Carriers("motion_type") THEN dataset[i]["motion_type"].s ELSE "Unknown"

C4_MissingFieldCountsAsUnknown ==
    (StatsDone /\ HasTag("mt_header")) =>
        /\ \A k \in 1..Len(CategoryLines) :
              CategoryLines[k].nums[1] =
                  Cardinality({i \in 1..Len(dataset) : CategoryOfRecord(i) = CategoryLines[k].key})
        /\ \A k, m \in 1..Len(CategoryLines) :
              CategoryLines[k].key = CategoryLines[m].key => k = m
        /\ \A i \in 1..Len(dataset) :
              \E k \in 1..Len(CategoryLines) : CategoryLines[k].key = CategoryOfRecord(i)
        /\ SumSeq([k \in 1..Len(CategoryLines) |-> CategoryLines[k].nums[1]]) = Len(dataset)

C4_Witness ==
    /\ StatsDone
    /\ pc = "done"
    /\ HasTag("mt_header")
    /\ Cardinality(Carriers("motion_type")) = 2
    /\ Len(dataset) = 3
    /\ \E k \in 1..Len(CategoryLines) :
          CategoryLines[k].key = "Unknown" /\ CategoryLines[k].nums[1] = 1

-----------------------------------------------------------------------------
(* C5: a record contributes one length to the sequence-length statistic:   *)
(* its original_seq_len when present (whatever its coordinates), else the  *)
(* length of its coordinates when present, else nothing.  When the block   *)
(* is printed it reports the minimum, the maximum and the mean (to the one *)
(* decimal printed) of exactly those lengths; when every record has        *)
(* original_seq_len the block is printed from those values alone.          *)

LengthCarriers == Carriers("original_seq_len") \cup Carriers("coordinates")

LengthOfRecord ==
    [i \in LengthCarriers |->
        IF i \in Carriers("original_seq_len") THEN dataset[i]["original_seq_len"].n
        ELSE dataset[i]["coordinates"].shape[1]]

C5_SequenceLengthPrefersOriginal ==
    StatsDone =>
        /\ HasTag("seq_header") => BlockReports(SeqTags, LengthCarriers, LengthOfRecord)
        /\ Carriers("original_seq_len") = 1..Len(dataset) =>
              /\ HasTag("seq_header")
              /\ BlockReports(SeqTags, 1..Len(dataset),
                              [i \in 1..Len(dataset) |-> dataset[i]["original_seq_len"].n])

C5_Witness ==
    /\ StatsDone
    /\ pc = "done"
    /\ HasTag("seq_header")
    /\ Carriers("original_seq_len") = 1..Len(dataset)
    /\ \E i \in Carriers("coordinates") :
          dataset[i]["coordinates"].shape[1] # dataset[i]["original_seq_len"].n
    /\ ValueOf("seq_min") # ValueOf("seq_max")

-----------------------------------------------------------------------------
(* C6, as stated: the label-count block reports the minimum, the maximum   *)
(* and the arithmetic mean (sum over number of contributing records) of    *)
(* the label counts of the records whose labels are present and non-empty; *)
(* counts [0, 2, 3, 3, 5] give min 2, max 5 and mean 3.25.                 *)

LabelCarriers == {i \in Carriers("labels") : Len(dataset[i]["labels"].xs) > 0}

LabelCountOfRecord == [i \in LabelCarriers |-> Len(dataset[i]["labels"].xs)]

C6_ReportsExactMean ==
    (StatsDone /\ HasTag("lab_header")) =>
        /\ BlockReports(LabTags, LabelCarriers, LabelCountOfRecord)
        /\ dataset = ExampleLabels =>
              /\ ValueOf("lab_min") = 2
              /\ ValueOf("lab_max") = 5
              /\ MeanIsExact("lab_mean", LabelCarriers, LabelCountOfRecord)

(* C6, amended: the label-count block is computed over exactly the records *)
(* whose labels are present and non-empty and is printed only when one     *)
(* contributes; it reports their minimum, their maximum and their mean     *)
(* rendered with one decimal, so counts [0, 2, 3, 3, 5] give min 2, max 5  *)
(* and a printed mean of 3.2, the mean itself being 3.25.                  *)

C6_ReportsMeanToOneDecimal ==
    StatsDone =>
        /\ HasTag("lab_header") =>
              /\ LabelCarriers # {}
              /\ BlockReports(LabTags, LabelCarriers, LabelCountOfRecord)
        /\ dataset = ExampleLabels =>
              /\ HasTag("lab_header")
              /\ ValueOf("lab_min") = 2
              /\ ValueOf("lab_max") = 5
              /\ ValueOf("lab_mean") = 32
        /\ ~HasTag("lab_header") => ~HasTag("lab_min") /\ ~HasTag("lab_max") /\ ~HasTag("lab_mean")

C6_Witness ==
    /\ StatsDone
    /\ pc = "done"
    /\ dataset = ExampleLabels
    /\ ValueOf("lab_mean") = 32

-----------------------------------------------------------------------------
(* Previews, restated from the records *)

\* the record rendered by the k-th preview
PreviewedRecord(k) == dataset[previewed[k] + 1]

SamplePos(k) == CHOOSE p \in 1..Len(out) : out[p] = LN("sample", <<k>>)

SectionEnd(k) ==
    CHOOSE e \in (SamplePos(k) + 1)..Len(out) :
        /\ out[e].tag = "blank"
        /\ \A q \in (SamplePos(k) + 1)..(e - 1) : out[q].tag # "blank"

\* the lines of the k-th preview, between its title and its closing blank line
Section(k) == SubSeq(out, SamplePos(k) + 1, SectionEnd(k) - 1)

SegmentFields == {segment_keys[i] : i \in 1..Len(segment_keys)}

PlaceholderFields == {"video_name", "motion_type"}

OmittedFields == {"coordinates", "original_seq_len", "camera_view", "labels", "augmented_labels"}

PreviewFields == PlaceholderFields \cup OmittedFields \cup SegmentFields

\* the line is printed for field f
LineOfField(line, f) ==
    IF f \in SegmentFields THEN line.tag = "segment" /\ line.key = f
    ELSE IF f = "coordinates" THEN line.tag \in {"coords_shape", "coords_stats"}
    ELSE IF f = "original_seq_len" THEN line.tag = "orig_len"
    ELSE IF f = "labels" THEN line.tag \in {"labels_header", "label", "labels_more"}
    ELSE line.tag = f

NoLineIn(sec, f) == \A q \in 1..Len(sec) : ~LineOfField(sec[q], f)

\* a statistic whose source fields no record carries prints nothing
AbsentStatisticsAreOmitted ==
    StatsDone =>
        /\ Carriers("motion_type") = {} => ~HasTag("mt_header") /\ ~HasTag("mt_count")
        /\ LengthCarriers = {} =>
              ~HasTag("seq_header") /\ ~HasTag("seq_min") /\ ~HasTag("seq_max") /\ ~HasTag("seq_mean")
        /\ Carriers("labels") = {} =>
              ~HasTag("lab_header") /\ ~HasTag("lab_min") /\ ~HasTag("lab_max") /\ ~HasTag("lab_mean")

-----------------------------------------------------------------------------
(* C7, as stated: in every preview and statistic, a field absent from the  *)
(* record produces no output line for that field and raises no exception,  *)
(* for each previewable field and any combination of present and absent.   *)

C7_AbsentFieldPrintsNothing ==
    InView =>
        /\ exc = "none"
        /\ AbsentStatisticsAreOmitted
        /\ \A k \in 1..Len(previewed) :
              LET sec == Section(k)
              IN  \A f \in PreviewFields \ DOMAIN PreviewedRecord(k) : NoLineIn(sec, f)

(* C7, amended: no exception is raised for any combination of present and  *)
(* absent fields; in a preview an absent coordinates, original_seq_len,    *)
(* camera_view, segment-boundary, labels or augmented_labels field prints  *)
(* no line, while the video_name and motion_type lines are always printed  *)
(* and show the placeholder N/A when the field is absent; a statistic      *)
(* whose source field no record carries prints nothing.                    *)

C7_AbsentFieldOmittedOrPlaceholder ==
    InView =>
        /\ exc = "none"
        /\ pc # "raised"
        /\ AbsentStatisticsAreOmitted
        /\ \A k \in 1..Len(previewed) :
              LET sec == Section(k)
                  absent == PreviewFields \ DOMAIN PreviewedRecord(k)
              IN  /\ \A f \in absent \ PlaceholderFields : NoLineIn(sec, f)
                  /\ SegmentFields \subseteq absent =>
                        \A q \in 1..Len(sec) : sec[q].tag # "segments_header"
                  /\ \A f \in absent \cap PlaceholderFields :
                        LinesTagged(sec, f) = <<LK(f, "N/A")>>

C7_Witness ==
    /\ InView
    /\ pc = "done"
    /\ Len(previewed) = 1
    /\ DOMAIN PreviewedRecord(1) = {"camera_view"}
    /\ Section(1) = <<LK("video_name", "N/A"), LK("motion_type", "N/A"), LK("camera_view", "front")>>

-----------------------------------------------------------------------------
(* C8: every label shown in a preview is printed unmodified when it has at *)
(* most 80 characters, and as its first 80 characters followed by the      *)
(* ellipsis when it has 81 or more.                                        *)

ShownLabels(k) ==
    LET labels == PreviewedRecord(k)["labels"].xs
    IN  SubSeq(labels, 1, IF Len(labels) < 2 THEN Len(labels) ELSE 2)

C8_LabelTruncatedAt80 ==
    (InView /\ exc = "none") =>
        \A k \in 1..Len(previewed) :
            ("labels" \in DOMAIN PreviewedRecord(k) /\ Len(PreviewedRecord(k)["labels"].xs) > 0) =>
                LET printed == LinesTagged(Section(k), "label")
                    shown == ShownLabels(k)
                IN  /\ Len(printed) = Len(shown)
                    /\ \A j \in 1..Len(shown) :
                          LET label == shown[j]
                              text == printed[j].text
                          IN  /\ printed[j].nums = <<j>>
                              /\ Len(label) <= 80 => text = label
                              /\ Len(label) >= 81 =>
                                    /\ Len(text) = 83
                                    /\ \A c \in 1..80 : text[c] = label[c]
                                    /\ \A c \in 81..83 : text[c] = 46

C8_Witness ==
    /\ InView
    /\ pc = "done"
    /\ Len(previewed) = 1
    /\ "labels" \in DOMAIN PreviewedRecord(1)
    /\ LET printed == LinesTagged(Section(1), "label")
           labels == PreviewedRecord(1)["labels"].xs
       IN  /\ Len(printed) = 2
           /\ Len(labels[1]) = 81 /\ Len(printed[1].text) = 83
           /\ Len(labels[2]) = 80 /\ printed[2].text = labels[2]

-----------------------------------------------------------------------------
(* C9: with details enabled, a non-empty dataset of length L and a maximum *)
(* sample count N >= 0, the previews rendered are those of the records at  *)
(* positions 0, 1, ..., min(N, L) - 1, in that order, each once; no record *)
(* at a position >= N is previewed.                                        *)

ExpectedPreviews ==
    LET n == IF max_samples <= Len(dataset) THEN max_samples ELSE Len(dataset)
    IN  [i \in 1..n |-> i - 1]

C9_PreviewsFirstMinNL ==
    (InView /\ loaded /\ Len(dataset) > 0) =>
        /\ exc = "none"
        /\ \A k \in 1..Len(previewed) :
              /\ previewed[k] = k - 1
              /\ previewed[k] < max_samples
              /\ previewed[k] < Len(dataset)
        /\ (StatsDone /\ show_details /\ pc \in {"footer", "main_tail", "done"}) =>
              /\ previewed = ExpectedPreviews
              /\ CountTag("sample") = Len(ExpectedPreviews)
              /\ LinesTagged(out, "sample") = [i \in 1..Len(ExpectedPreviews) |-> LN("sample", <<i>>)]
        /\ ~show_details => previewed = <<>> /\ ~HasTag("sample")

C9_Witness ==
    /\ InView
    /\ pc = "done"
    /\ show_details
    /\ max_samples = 2
    /\ Len(dataset) = 3
    /\ previewed = <<0, 1>>

-----------------------------------------------------------------------------
(* C10: save_dataset_to_json writes one object per record, in the same     *)
(* order and with the same field names; a field that is not a tensor       *)
(* keeps its value, a tensor field becomes a summary with the type tag,    *)
(* the shape as a list of integers, the element-type name and the minimum, *)
(* maximum and mean over all elements; the loaded records are unchanged.   *)

IsSummaryOf(j, value) ==
    /\ j.json = "object"
    /\ j.type = "Tensor"
    /\ j.shape = value.shape
    /\ j.dtype = "torch.float32"
    /\ j.min.den = 1 /\ j.max.den = 1
    /\ \E c \in 1..Len(value.data) : value.data[c] = j.min.num
    /\ \A c \in 1..Len(value.data) : value.data[c] >= j.min.num
    /\ \E c \in 1..Len(value.data) : value.data[c] = j.max.num
    /\ \A c \in 1..Len(value.data) : value.data[c] <= j.max.num
    /\ j.mean.den > 0
    /\ j.mean.num * Len(value.data) = SumSeq(value.data) * j.mean.den

IsCopyOf(j, value) ==
    IF value.kind = "str" THEN j.json = "string" /\ j.s = value.s
    ELSE IF value.kind = "int" THEN j.json = "number" /\ j.n = value.n
    ELSE j.json = "array" /\ j.xs = value.xs

C10_ExportMirrorsRecords ==
    (entry = "export" /\ pc = "done") =>
        /\ exc = "none"
        /\ dataset = fs.data
        /\ Len(json_file) = 1
        /\ LET doc == json_file[1]
           IN  /\ Len(doc) = Len(fs.data)
               /\ \A i \in 1..Len(doc) :
                     /\ DOMAIN doc[i] = DOMAIN fs.data[i]
                     /\ \A key \in DOMAIN doc[i] :
                           IF fs.data[i][key].kind = "Tensor"
                           THEN IsSummaryOf(doc[i][key], fs.data[i][key])
                           ELSE IsCopyOf(doc[i][key], fs.data[i][key])
        /\ fs.data = ExampleTensor =>
              /\ json_file[1][1]["coordinates"].shape = <<10, 3>>
              /\ Len(fs.data[1]["coordinates"].data) = 30

C10_Witness ==
    /\ entry = "export"
    /\ pc = "done"
    /\ fs.data = ExampleTensor
    /\ json_file[1][1]["coordinates"].shape = <<10, 3>>
    /\ json_file[1][1]["video_name"] = [json |-> "string", s |-> "v"]

====
